---- MODULE Spec2Model ----
(***************************************************************************)
(* FinQuery front end: the streaming question/answer exchange of           *)
(* Dashboard.handleSendMessage and api.queryDocumentsStream.               *)
(*                                                                         *)
(* Text is a sequence of one-character strings.  The response body is a    *)
(* sequence of such characters; the transport hands it to the reader in    *)
(* chunks cut at arbitrary positions.                                      *)
(***************************************************************************)
EXTENDS Integers, Sequences, FiniteSets, Bags, TLC

(***************************************************************************)
(* JavaScript string primitives used by the code.                          *)
(***************************************************************************)

\* String.prototype.startsWith
startsWith(s, p) ==
    /\ Len(s) >= Len(p)
    /\ \A i \in 1..Len(p) : s[i] = p[i]

\* String.prototype.slice(n) with n >= 0
slice(s, n) == SubSeq(s, n + 1, Len(s))

\* String.prototype.split('\n'): the pieces between line feeds; a text of
\* n line feeds gives n + 1 pieces, the last one possibly empty.
RECURSIVE splitFrom(_, _)
splitFrom(s, from) ==
    LET feeds == {i \in from..Len(s) : s[i] = "\n"} IN
    IF feeds = {} THEN <<SubSeq(s, from, Len(s))>>
    ELSE LET nl == CHOOSE i \in feeds : \A j \in feeds : i <= j
         IN  <<SubSeq(s, from, nl - 1)>> \o splitFrom(s, nl + 1)

split(s) == splitFrom(s, 1)

\* String.prototype.trim() leaves a non-empty string
IsSpace(c) == c \in {" ", "\t", "\n", "\r"}
trimNonEmpty(s) == \E i \in 1..Len(s) : ~IsSpace(s[i])

(***************************************************************************)
(* JSON.parse, for texts over the characters the modelled bodies use:      *)
(* objects, arrays, strings (with the escapes \" \\ \/ \n \t \r),          *)
(* non-negative integers, true, false, null, and JSON white space.         *)
(* A JavaScript value is a record tagged by t.                             *)
(***************************************************************************)
JsUndefined == [t |-> "undefined"]
JsNull == [t |-> "null"]
JsBool(b) == [t |-> IF b THEN "true" ELSE "false"]
JsString(cs) == [t |-> "string", v |-> cs]
JsNumber(n) == [t |-> "number", v |-> n]
JsArray(xs) == [t |-> "array", v |-> xs]
\* an object is its members in source order: <<key, value>> pairs
JsObject(ms) == [t |-> "object", v |-> ms]

SyntaxError == [ok |-> FALSE]
Parsed(val, next) == [ok |-> TRUE, val |-> val, next |-> next]

Digits == <<"0", "1", "2", "3", "4", "5", "6", "7", "8", "9">>
IsDigit(c) == \E d \in 1..10 : Digits[d] = c
DigitVal(c) == (CHOOSE d \in 1..10 : Digits[d] = c) - 1

RECURSIVE skipWs(_, _)
skipWs(s, i) == IF i <= Len(s) /\ IsSpace(s[i]) THEN skipWs(s, i + 1) ELSE i

Unescape(c) ==
    CASE c = "n" -> "\n"
      [] c = "t" -> "\t"
      [] c = "r" -> "\r"
      [] OTHER -> c

\* the characters of a string literal, from the one after the opening quote
RECURSIVE parseChars(_, _, _)
parseChars(s, i, acc) ==
    IF i > Len(s) THEN SyntaxError
    ELSE IF s[i] = "\"" THEN Parsed(acc, i + 1)
    ELSE IF s[i] = "\\" THEN
        IF i + 1 <= Len(s) /\ s[i + 1] \in {"\"", "\\", "/", "n", "t", "r"}
        THEN parseChars(s, i + 2, Append(acc, Unescape(s[i + 1])))
        ELSE SyntaxError
    ELSE IF s[i] \in {"\n", "\t", "\r"} THEN SyntaxError
    ELSE parseChars(s, i + 1, Append(acc, s[i]))

RECURSIVE parseDigits(_, _, _)
parseDigits(s, i, n) ==
    IF i <= Len(s) /\ IsDigit(s[i])
    THEN parseDigits(s, i + 1, 10 * n + DigitVal(s[i]))
    ELSE Parsed(JsNumber(n), i)

parseNumber(s, i) ==
    IF s[i] = "0" THEN Parsed(JsNumber(0), i + 1)
    ELSE parseDigits(s, i, 0)

parseLiteral(s, i, word, val) ==
    IF startsWith(slice(s, i - 1), word) THEN Parsed(val, i + Len(word))
    ELSE SyntaxError

RECURSIVE parseValue(_, _), parseMembers(_, _, _), parseElements(_, _, _)

\* a value starting at or after position i, with leading white space
parseValue(s, i0) ==
    LET i == skipWs(s, i0) IN
    IF i > Len(s) THEN SyntaxError
    ELSE IF s[i] = "{" THEN
        LET j == skipWs(s, i + 1) IN
        IF j <= Len(s) /\ s[j] = "}" THEN Parsed(JsObject(<<>>), j + 1)
        ELSE parseMembers(s, j, <<>>)
    ELSE IF s[i] = "[" THEN
        LET j == skipWs(s, i + 1) IN
        IF j <= Len(s) /\ s[j] = "]" THEN Parsed(JsArray(<<>>), j + 1)
        ELSE parseElements(s, j, <<>>)
    ELSE IF s[i] = "\"" THEN
        LET r == parseChars(s, i + 1, <<>>) IN
        IF r.ok THEN Parsed(JsString(r.val), r.next) ELSE SyntaxError
    ELSE IF IsDigit(s[i]) THEN parseNumber(s, i)
    ELSE IF s[i] = "t" THEN parseLiteral(s, i, <<"t", "r", "u", "e">>, JsBool(TRUE))
    ELSE IF s[i] = "f" THEN parseLiteral(s, i, <<"f", "a", "l", "s", "e">>, JsBool(FALSE))
    ELSE IF s[i] = "n" THEN parseLiteral(s, i, <<"n", "u", "l", "l">>, JsNull)
    ELSE SyntaxError

\* "key":value pairs separated by commas, up to the closing brace
parseMembers(s, i0, acc) ==
    LET i == skipWs(s, i0) IN
    IF i > Len(s) \/ s[i] # "\"" THEN SyntaxError
    ELSE
        LET k == parseChars(s, i + 1, <<>>) IN
        IF ~k.ok THEN SyntaxError
        ELSE
            LET c == skipWs(s, k.next) IN
            IF c > Len(s) \/ s[c] # ":" THEN SyntaxError
            ELSE
                LET v == parseValue(s, c + 1) IN
                IF ~v.ok THEN SyntaxError
                ELSE
                    LET e == skipWs(s, v.next)
                        ms == Append(acc, <<k.val, v.val>>)
                    IN  IF e > Len(s) THEN SyntaxError
                        ELSE IF s[e] = "}" THEN Parsed(JsObject(ms), e + 1)
                        ELSE IF s[e] = "," THEN parseMembers(s, e + 1, ms)
                        ELSE SyntaxError

\* values separated by commas, up to the closing bracket
parseElements(s, i0, acc) ==
    LET v == parseValue(s, i0) IN
    IF ~v.ok THEN SyntaxError
    ELSE
        LET e == skipWs(s, v.next)
            xs == Append(acc, v.val)
        IN  IF e > Len(s) THEN SyntaxError
            ELSE IF s[e] = "]" THEN Parsed(JsArray(xs), e + 1)
            ELSE IF s[e] = "," THEN parseElements(s, e + 1, xs)
            ELSE SyntaxError

\* JSON.parse(text): the value, or a thrown SyntaxError (ok = FALSE) when the
\* text is not exactly one JSON value.
JSONparse(s) ==
    LET r == parseValue(s, 1) IN
    IF r.ok /\ skipWs(s, r.next) > Len(s) THEN [ok |-> TRUE, val |-> r.val]
    ELSE SyntaxError

\* obj.key for a parsed value: the last member of that name, undefined when
\* there is none or the value is not an object.  (Reading a property of null
\* throws; GetThrows says so.)
RECURSIVE lookup(_, _, _)
lookup(ms, key, i) ==
    IF i = 0 THEN JsUndefined
    ELSE IF ms[i][1] = key THEN ms[i][2]
    ELSE lookup(ms, key, i - 1)

Get(val, key) ==
    IF val.t = "object" THEN lookup(val.v, key, Len(val.v)) ELSE JsUndefined

GetThrows(val) == val.t \in {"null", "undefined"}

(***************************************************************************)
(* Literals of the source, as character sequences.                         *)
(***************************************************************************)
\* 'data: ', the literal of line.startsWith and of line.slice(6)
DataPrefix ==
    <<"d", "a", "t", "a", ":", " ">>

\* data.type
TypeKey ==
    <<"t", "y", "p", "e">>

\* data.content
ContentKey ==
    <<"c", "o", "n", "t", "e", "n", "t">>

\* data.sources
SourcesKey ==
    <<"s", "o", "u", "r", "c", "e", "s">>

\* 'token'
TokenType ==
    <<"t", "o", "k", "e", "n">>

\* 'done'
DoneType ==
    <<"d", "o", "n", "e">>

\* the fixed fallback text of the catch block
Apology ==
    <<"S", "o", "r", "r", "y", ",", " ", "a", "n", " ", "e", "r", "r", "o",
      "r", " ", "o", "c", "c", "u", "r", "r", "e", "d", " ", "w", "h", "i",
      "l", "e", " ", "p", "r", "o", "c", "e", "s", "s", "i", "n", "g", " ",
      "y", "o", "u", "r", " ", "q", "u", "e", "s", "t", "i", "o", "n", ".",
      " ", "P", "l", "e", "a", "s", "e", " ", "t", "r", "y", " ", "a", "g",
      "a", "i", "n", ".">>

\* String(undefined)
UndefinedText ==
    <<"u", "n", "d", "e", "f", "i", "n", "e", "d">>

\* String(null)
NullText ==
    <<"n", "u", "l", "l">>

\* String(true)
TrueText ==
    <<"t", "r", "u", "e">>

\* String(false)
FalseText ==
    <<"f", "a", "l", "s", "e">>

\* String({})
ObjectText ==
    <<"[", "o", "b", "j", "e", "c", "t", " ", "O", "b", "j", "e", "c", "t",
      "]">>

(***************************************************************************)
(* TextDecoder.decode(value) without {stream: true}: every call decodes    *)
(* its bytes on their own.  A byte is an ASCII character, or one of the    *)
(* two bytes "C3" "A9" of the UTF-8 encoding of U+00E9; a lead byte        *)
(* without its continuation byte, and a continuation byte without its      *)
(* lead, decode to the replacement character U+FFFD.                       *)
(***************************************************************************)
decodeAt(bytes, i) ==
    IF bytes[i] = "C3" THEN
        IF i < Len(bytes) /\ bytes[i + 1] = "A9" THEN "U+00E9" ELSE "U+FFFD"
    ELSE IF bytes[i] = "A9" THEN
        IF i > 1 /\ bytes[i - 1] = "C3" THEN "" ELSE "U+FFFD"
    ELSE bytes[i]

IsChar(c) == c # ""

decode(bytes) ==
    SelectSeq([i \in 1..Len(bytes) |-> decodeAt(bytes, i)], IsChar)

(***************************************************************************)
(* The string a value becomes under `lastMsg.content + token`.             *)
(***************************************************************************)
RECURSIVE numberText(_)
numberText(n) ==
    IF n < 10 THEN <<Digits[n + 1]>>
    ELSE numberText(n \div 10) \o <<Digits[(n % 10) + 1]>>

RECURSIVE toText(_), joinText(_, _)
toText(val) ==
    CASE val.t = "string" -> val.v
      [] val.t = "number" -> numberText(val.v)
      [] val.t = "undefined" -> UndefinedText
      [] val.t = "null" -> NullText
      [] val.t = "true" -> TrueText
      [] val.t = "false" -> FalseText
      [] val.t = "array" -> joinText(val.v, 1)
      [] val.t = "object" -> ObjectText

\* Array.prototype.join(','), where null and undefined elements are empty
joinText(xs, i) ==
    IF i > Len(xs) THEN <<>>
    ELSE (IF xs[i].t \in {"null", "undefined"} THEN <<>> ELSE toText(xs[i]))
         \o (IF i < Len(xs) THEN <<",">> ELSE <<>>)
         \o joinText(xs, i + 1)

(***************************************************************************)
(* api.queryDocumentsStream, the body of the read loop: the callbacks one  *)
(* chunk produces, in order.  A call is [fn, arg].                         *)
(***************************************************************************)
IsDataLine(line) == startsWith(line, DataPrefix)

\* a try block whose else branch takes every other type for a token
lineCallsElseToken(line) ==
    LET data == JSONparse(slice(line, 6)) IN
    IF ~data.ok THEN <<>>
    ELSE IF GetThrows(data.val) THEN <<>>
    ELSE
        LET type == Get(data.val, TypeKey) IN
        IF type.t = "string" /\ type.v = DoneType
        THEN <<[fn |-> "onDone", arg |-> Get(data.val, SourcesKey)]>>
        ELSE <<[fn |-> "onToken", arg |-> Get(data.val, ContentKey)]>>

\* the try block of the for loop, for one line
lineCalls(line) ==
    LET data == JSONparse(slice(line, 6)) IN
    IF ~data.ok THEN <<>>
    ELSE IF GetThrows(data.val) THEN <<>>
    ELSE
        LET type == Get(data.val, TypeKey) IN
        IF type.t = "string" /\ type.v = TokenType
        THEN <<[fn |-> "onToken", arg |-> Get(data.val, ContentKey)]>>
        ELSE IF type.t = "string" /\ type.v = DoneType
        THEN <<[fn |-> "onDone", arg |-> Get(data.val, SourcesKey)]>>
        ELSE <<>>

\* the payload of a data line parses
Parses(line) == JSONparse(slice(line, 6)).ok

\* a for loop inside one try block: the first parse failure ends the loop
RECURSIVE linesCallsAbort(_, _)
linesCallsAbort(lines, i) ==
    IF i > Len(lines) THEN <<>>
    ELSE IF ~Parses(lines[i]) THEN <<>>
    ELSE lineCalls(lines[i]) \o linesCallsAbort(lines, i + 1)

RECURSIVE linesCalls(_, _)
linesCalls(lines, i) ==
    IF i > Len(lines) THEN <<>>
    ELSE lineCalls(lines[i]) \o linesCalls(lines, i + 1)

\* const text = decoder.decode(value);
\* const lines = text.split('\n').filter(line => line.startsWith('data: '));
\* for (const line of lines) { ... }
chunkCalls(value) ==
    LET text == decode(value)
        lines == SelectSeq(split(text), IsDataLine)
    IN  linesCalls(lines, 1)

(***************************************************************************)
(* Inputs.  The response bodies the server may send, as bytes.             *)
(***************************************************************************)
\* token "Hi", then done with sources [{page: 2}] (spec, Scenario C):
\*   data: {"type":"token","content":"Hi"}
\*   data: {"type":"done","sources":[{"page":2}]}
ScenarioC ==
    <<"d", "a", "t", "a", ":", " ", "{", "\"", "t", "y", "p", "e", "\"", ":",
      "\"", "t", "o", "k", "e", "n", "\"", ",", "\"", "c", "o", "n", "t",
      "e", "n", "t", "\"", ":", "\"", "H", "i", "\"", "}", "\n", "d", "a",
      "t", "a", ":", " ", "{", "\"", "t", "y", "p", "e", "\"", ":", "\"",
      "d", "o", "n", "e", "\"", ",", "\"", "s", "o", "u", "r", "c", "e", "s",
      "\"", ":", "[", "{", "\"", "p", "a", "g", "e", "\"", ":", "2", "}",
      "]", "}", "\n">>

\* two tokens and no done frame: a truncated answer:
\*   data: {"type":"token","content":"a"}
\*   data: {"type":"token","content":"b"}
TwoTokens ==
    <<"d", "a", "t", "a", ":", " ", "{", "\"", "t", "y", "p", "e", "\"", ":",
      "\"", "t", "o", "k", "e", "n", "\"", ",", "\"", "c", "o", "n", "t",
      "e", "n", "t", "\"", ":", "\"", "a", "\"", "}", "\n", "d", "a", "t",
      "a", ":", " ", "{", "\"", "t", "y", "p", "e", "\"", ":", "\"", "t",
      "o", "k", "e", "n", "\"", ",", "\"", "c", "o", "n", "t", "e", "n", "t",
      "\"", ":", "\"", "b", "\"", "}", "\n">>

\* a done frame, a token, and a second done frame with other sources:
\*   data: {"type":"done","sources":[{"page":2}]}
\*   data: {"type":"token","content":"a"}
\*   data: {"type":"done","sources":[]}
TwoDones ==
    <<"d", "a", "t", "a", ":", " ", "{", "\"", "t", "y", "p", "e", "\"", ":",
      "\"", "d", "o", "n", "e", "\"", ",", "\"", "s", "o", "u", "r", "c",
      "e", "s", "\"", ":", "[", "{", "\"", "p", "a", "g", "e", "\"", ":",
      "2", "}", "]", "}", "\n", "d", "a", "t", "a", ":", " ", "{", "\"", "t",
      "y", "p", "e", "\"", ":", "\"", "t", "o", "k", "e", "n", "\"", ",",
      "\"", "c", "o", "n", "t", "e", "n", "t", "\"", ":", "\"", "a", "\"",
      "}", "\n", "d", "a", "t", "a", ":", " ", "{", "\"", "t", "y", "p", "e",
      "\"", ":", "\"", "d", "o", "n", "e", "\"", ",", "\"", "s", "o", "u",
      "r", "c", "e", "s", "\"", ":", "[", "]", "}", "\n">>

\* a comment line, a malformed payload, an unknown type, a blank line, then
\* a token whose content is the two-byte character U+00E9:
\*   : ping
\*   data: {oops
\*   data: {"type":"ping"}
\*
\*   data: {"type":"token","content":"<C3 A9>"}
Noisy ==
    <<":", " ", "p", "i", "n", "g", "\n", "d", "a", "t", "a", ":", " ", "{",
      "o", "o", "p", "s", "\n", "d", "a", "t", "a", ":", " ", "{", "\"", "t",
      "y", "p", "e", "\"", ":", "\"", "p", "i", "n", "g", "\"", "}", "\n",
      "\n", "d", "a", "t", "a", ":", " ", "{", "\"", "t", "y", "p", "e",
      "\"", ":", "\"", "t", "o", "k", "e", "n", "\"", ",", "\"", "c", "o",
      "n", "t", "e", "n", "t", "\"", ":", "\"", "C3", "A9", "\"", "}", "\n">>

\* a token, a data line whose payload is cut short, a token and a done frame:
\*   data: {"type":"token","content":"a"}
\*   data: {"type":"token",
\*   data: {"type":"token","content":"b"}
\*   data: {"type":"done","sources":[]}
Broken ==
    <<"d", "a", "t", "a", ":", " ", "{", "\"", "t", "y", "p", "e", "\"", ":",
      "\"", "t", "o", "k", "e", "n", "\"", ",", "\"", "c", "o", "n", "t",
      "e", "n", "t", "\"", ":", "\"", "a", "\"", "}", "\n", "d", "a", "t",
      "a", ":", " ", "{", "\"", "t", "y", "p", "e", "\"", ":", "\"", "t",
      "o", "k", "e", "n", "\"", ",", "\n", "d", "a", "t", "a", ":", " ", "{",
      "\"", "t", "y", "p", "e", "\"", ":", "\"", "t", "o", "k", "e", "n",
      "\"", ",", "\"", "c", "o", "n", "t", "e", "n", "t", "\"", ":", "\"",
      "b", "\"", "}", "\n", "d", "a", "t", "a", ":", " ", "{", "\"", "t",
      "y", "p", "e", "\"", ":", "\"", "d", "o", "n", "e", "\"", ",", "\"",
      "s", "o", "u", "r", "c", "e", "s", "\"", ":", "[", "]", "}", "\n">>

\* a response body is named; Bytes gives its bytes
Bytes(body) ==
    CASE body = "Empty" -> <<>>
      [] body = "ScenarioC" -> ScenarioC
      [] body = "TwoTokens" -> TwoTokens
      [] body = "TwoDones" -> TwoDones
      [] body = "Noisy" -> Noisy
      [] body = "Broken" -> Broken

\* the bodies of the stream specification: every shape above, and no bytes
Bodies == {"Empty", "ScenarioC", "TwoTokens", "TwoDones", "Noisy", "Broken"}

\* the bodies of the session specification
SessionBodies == {"Empty", "ScenarioC"}

\* where the transport may end a chunk: anywhere (the stream specification)
AllCuts == [body \in Bodies |-> 1..Len(Bytes(body))]

\* where the transport may end a chunk in the session specification: after a
\* line feed, at every CutStride-th byte, and at the end of the body
CutStride == 7

SessionCuts ==
    [body \in SessionBodies |->
        {p \in 1..Len(Bytes(body)) :
            \/ Bytes(body)[p] = "\n"
            \/ p % CutStride = 0
            \/ p = Len(Bytes(body))}]

\* ChatArea.exampleQuestions
exampleQuestions ==
    <<
      <<"H", "i", ",", " ", "w", "h", "a", "t", "'", "s", " ", "u", "p", "?">>,
      <<"W", "h", "a", "t", " ", "d", "o", " ", "y", "o", "u", " ", "d", "o",
        "?">>,
      <<"W", "h", "a", "t", " ", "w", "a", "s", " ", "m", "y", " ", "h", "i",
        "g", "h", "e", "s", "t", " ", "e", "x", "p", "e", "n", "s", "e", "?">>,
      <<"H", "o", "w", " ", "m", "u", "c", "h", " ", "d", "i", "d", " ", "I",
        " ", "s", "p", "e", "n", "d", " ", "a", "t", " ", "b", "o", "k", "k",
        "u", "?">>
    >>

\* the example buttons the user may click
ExampleChoices == {1, 3}

\* what the user may type into the InputBar textarea
Inputs == {<<"Q">>, <<" ">>}

\* statuses the stream endpoint may answer with
Statuses == {200, 401, 500}

\* calls of handleSendMessage explored by the session specification
MaxExchanges == 2

\* the documents the server stores when the page is mounted, in the order
\* GET /documents lists them
DocOrder == <<"a.pdf", "b.pdf", "c.pdf">>

Docs == {DocOrder[i] : i \in 1..Len(DocOrder)}

\* the files the user may pick or drop: their names, and the names as the
\* server's store holds them, in the order GET /documents lists them after
\* the documents stored from the start
UploadFiles ==
    { [name |-> <<"d", ".", "p", "d", "f">>, doc |-> "d.pdf"],
      [name |-> <<"e", ".", "P", "D", "F">>, doc |-> "e.PDF"],
      [name |-> <<"p", "d", "f">>, doc |-> "pdf"] }

UploadOrder == <<"d.pdf", "e.PDF", "pdf">>

\* the document whose x is clicked
DeleteChoices == {"a.pdf"}

\* document calls in flight at a time explored by the selection specification
MaxDeletes == 2

\* statuses an axios call is rejected with in the selection specification
SelStatuses == {500}

\* statuses a request is rejected with in the credential specification
AuthStatuses == {401, 500}

(***************************************************************************)
(* State.                                                                  *)
(*   messages, isLoading, selectedDocs   useState of Dashboard             *)
(*   input                               useState of InputBar              *)
(*   localStorage, href                  the browser's store and location  *)
(*   calls      one record per call of handleSendMessage, in call order:   *)
(*                pc       where the async call is suspended, or how it    *)
(*                         ended: "fetch" (await fetch), "read" (await     *)
(*                         reader.read()), "completed" (returned),         *)
(*                         "openFailed" / "readFailed" (threw)             *)
(*                request  the body and credential of the POST             *)
(*                body,pos the response body and how many bytes were read  *)
(*                own      index of the placeholder this call appended     *)
(*                cbs      the onToken/onDone calls made so far, in order  *)
(*              A call that has ended keeps no body and no position.       *)
(*   lastOp     the handler that ran last and whether an exchange was in   *)
(*              flight when it started; for a submit or an example click,  *)
(*              also the transcript and the number of requests opened when *)
(*              it started; for a selection handler, the document it was   *)
(*              called with, the selection when it started and the toast   *)
(*              it showed                                                  *)
(*   documents  the names of the documents the sidebar lists               *)
(*   stored     the names of the documents the server stores               *)
(*   tasks      the toasts that ask whether to delete a document, and the  *)
(*              calls in flight of fetchDocuments on mount, of             *)
(*              handleDelete, of handleUpload and of the api functions     *)
(*              login and getCurrentUser, a bag of records:                *)
(*                kind     "mount", "delete", "upload", "login" or "me"    *)
(*                doc      the document the x was clicked for, or the      *)
(*                         file handleUpload was called with               *)
(*                snapshot the selectedDocs of the render whose            *)
(*                         handleDelete the toast closed over              *)
(*                pc       "confirm" (the toast is open), "delete" (await  *)
(*                         deleteDocument), "upload" (await                *)
(*                         uploadDocument), "list" (await listDocuments),  *)
(*                         "login" or "me" (the request of the api         *)
(*                         function is awaited)                            *)
(*                authorization  the Authorization header of the request   *)
(*                         the call awaits                                 *)
(*              A call past its setSelectedDocs keeps no snapshot.         *)
(*   isUploading  useState of Dashboard                                    *)
(*   register   the Register page: its useState email, password,           *)
(*              confirmPassword and isLoading, and                         *)
(*                pc       "idle", or "register" while handleSubmit is     *)
(*                         suspended at await register(...)                *)
(*                sent     the bodies of the POST /register sent so far    *)
(*                logins   the calls of loginUser made so far              *)
(***************************************************************************)
VARIABLES messages, isLoading, selectedDocs, input, localStorage, href,
          calls, lastOp, documents, stored, tasks, isUploading, register

vars == <<messages, isLoading, selectedDocs, input, localStorage, href,
          calls, lastOp, documents, stored, tasks, isUploading, register>>

\* the document side of the page: the selection, the list, the server's
\* store and the document calls
library == <<selectedDocs, documents, stored, tasks, isUploading>>

\* the chat side of the page
chat == <<messages, isLoading, input, calls>>

InFlight(c) == calls[c].pc \in {"fetch", "read"}
Busy == \E c \in 1..Len(calls) : InFlight(c)

Op(name) == [op |-> name, busy |-> Busy, before |-> <<>>, opened |-> 0]
SubmitOp(name) ==
    [op |-> name, busy |-> Busy, before |-> messages, opened |-> Len(calls)]

\* localStorage.getItem of a key that is not stored
NoItem == "null"

\* an axios request without an Authorization header
NoHeader == "none"

\* api.interceptors.request: the Authorization header is set if a token is
\* stored
axiosAuthorization ==
    IF localStorage.token # NoItem THEN localStorage.token ELSE NoHeader

\* the record of a handler that received the answer of a request, with the
\* status of the answer
Answered(record, status) ==
    [field \in DOMAIN record \cup {"status"} |->
        IF field = "status" THEN status ELSE record[field]]

\* useEffect(() => { fetchDocuments(); }, []), suspended at await
\* listDocuments()
mountTask ==
    [kind |-> "mount", doc |-> "", snapshot |-> <<>>, pc |-> "list",
     authorization |-> axiosAuthorization]

\* the Register page as its useState calls initialise it
blankForm ==
    [email |-> <<>>, password |-> <<>>, confirmPassword |-> <<>>,
     isLoading |-> FALSE, pc |-> "idle", sent |-> <<>>, logins |-> <<>>]

Init ==
    /\ messages = <<>>
    /\ isLoading = FALSE
    /\ selectedDocs = <<>>
    /\ input = <<>>
    /\ localStorage = [token |-> "jwt", user |-> "user"]
    /\ href = "/"
    /\ calls = <<>>
    /\ lastOp = [op |-> "mount", busy |-> FALSE, before |-> <<>>, opened |-> 0]
    /\ documents = <<>>
    /\ stored = Docs
    /\ tasks = SetToBag({mountTask})
    /\ isUploading = FALSE
    /\ register = blankForm

(***************************************************************************)
(* Dashboard.handleSendMessage, up to its first await.                     *)
(***************************************************************************)
userMessage(question) == [role |-> "user", content |-> question]

assistantMessage == [role |-> "assistant", content |-> <<>>, sources |-> JsArray(<<>>)]

\* a prefix that appends the question only (the placeholder comes later)
appendUserOnly(prev, question) == Append(prev, userMessage(question))

\* the two setMessages((prev) => [...prev, m]) of the synchronous prefix
appendExchange(prev, question) ==
    Append(Append(prev, userMessage(question)), assistantMessage)

\* a scope that is the selection even when it is empty
documentNamesAlways == JsArray(selectedDocs)

\* selectedDocs.length > 0 ? selectedDocs : null
documentNames == IF Len(selectedDocs) > 0 THEN JsArray(selectedDocs) ELSE JsNull

\* the POST of queryDocumentsStream
streamRequest(question) ==
    [ authorization |-> localStorage.token,
      question |-> question,
      document_names |-> documentNames,
      n_results |-> 5 ]

\* the call, suspended at await fetch(...)
newCall(question, prev) ==
    [ pc |-> "fetch",
      request |-> streamRequest(question),
      body |-> "Empty",
      pos |-> 0,
      own |-> Len(prev) + 2,
      cbs |-> <<>> ]

handleSendMessage(question) ==
    /\ messages' = appendExchange(messages, question)
    /\ isLoading' = TRUE
    /\ calls' = Append(calls, newCall(question, messages))

(***************************************************************************)
(* InputBar: the textarea and the form.                                    *)
(***************************************************************************)
\* the prop disabled={isLoading}
disabled == isLoading

\* onChange of the textarea, which is disabled while disabled is true
handleChange(text) ==
    /\ ~disabled
    /\ text # input
    /\ input' = text
    /\ lastOp' = Op("handleChange")
    /\ UNCHANGED <<messages, isLoading, library, register, localStorage,
                   href, calls>>

\* handleSubmit without the !disabled test
submitAcceptedAlways == trimNonEmpty(input)

\* if (input.trim() && !disabled)
submitAccepted == trimNonEmpty(input) /\ ~disabled

handleSubmit ==
    /\ lastOp' = SubmitOp("handleSubmit")
    /\ IF submitAccepted
       THEN /\ handleSendMessage(input)
            /\ input' = <<>>
            /\ UNCHANGED <<library, register, localStorage, href>>
       ELSE UNCHANGED <<messages, isLoading, library, register, input,
                        localStorage, href, calls>>

(***************************************************************************)
(* ChatArea: the example buttons exist only while the transcript is empty  *)
(* (messages.length === 0 ? <buttons> : <messages>).                       *)
(***************************************************************************)
\* example buttons that stay on screen
examplesRenderedAlways == TRUE

examplesRendered == Len(messages) = 0

onExampleClick(idx) ==
    /\ examplesRendered
    /\ lastOp' = SubmitOp("onExampleClick")
    /\ handleSendMessage(exampleQuestions[idx])
    /\ UNCHANGED <<library, register, input, localStorage, href>>

(***************************************************************************)
(* The callbacks handleSendMessage passes to queryDocumentsStream, and its *)
(* catch block, as the setMessages updaters they run.                      *)
(***************************************************************************)
\* { ...lastMsg, sources }
withSources(msg, sources) ==
    IF "sources" \in DOMAIN msg
    THEN [msg EXCEPT !.sources = sources]
    ELSE [role |-> msg.role, content |-> msg.content, sources |-> sources]

\* onToken that replaces the content by the token
onTokenReplace(prev, token) ==
    [prev EXCEPT ![Len(prev)] = [@ EXCEPT !.content = toText(token)]]

\* onToken that writes one entry too early
onTokenOffByOne(prev, token) ==
    [prev EXCEPT ![Len(prev) - 1] = [@ EXCEPT !.content = @ \o toText(token)]]

\* [...prev.slice(0, -1), { ...lastMsg, content: lastMsg.content + token }]
onToken(prev, token) ==
    [prev EXCEPT ![Len(prev)] = [@ EXCEPT !.content = @ \o toText(token)]]

\* onDone that forgets prev.slice(0, -1) and appends the updated entry
onDoneAppend(prev, sources) ==
    Append(prev, withSources(prev[Len(prev)], sources))

\* [...prev.slice(0, -1), { ...lastMsg, sources }]
onDone(prev, sources) ==
    [prev EXCEPT ![Len(prev)] = withSources(@, sources)]

\* a catch block without the fallback
catchNoFallback(prev) == prev

\* a catch block that always writes the fallback
catchAlwaysFallback(prev) ==
    [prev EXCEPT ![Len(prev)] = [@ EXCEPT !.content = Apology]]

\* if (!lastMsg.content) lastMsg.content = 'Sorry, ...'
catchFallback(prev) ==
    IF prev[Len(prev)].content = <<>>
    THEN [prev EXCEPT ![Len(prev)] = [@ EXCEPT !.content = Apology]]
    ELSE prev

applyCall(prev, call) ==
    IF call.fn = "onToken" THEN onToken(prev, call.arg)
    ELSE onDone(prev, call.arg)

RECURSIVE applyCalls(_, _, _)
applyCalls(prev, cs, i) ==
    IF i > Len(cs) THEN prev
    ELSE applyCalls(applyCall(prev, cs[i]), cs, i + 1)

(***************************************************************************)
(* api.queryDocumentsStream and the rest of handleSendMessage, one action  *)
(* per resumption of call c.                                               *)
(***************************************************************************)
\* response.ok
ok(status) == status >= 200 /\ status <= 299

\* handleSendMessage: catch, then finally
thrown(c, pc) ==
    /\ messages' = catchFallback(messages)
    /\ isLoading' = FALSE
    /\ calls' = [calls EXCEPT ![c].pc = pc, ![c].body = "Empty", ![c].pos = 0]

\* await fetch(...) rejects: no response at all
fetchRejects(c) ==
    /\ calls[c].pc = "fetch"
    /\ lastOp' = Op("fetchRejects")
    /\ thrown(c, "openFailed")
    /\ UNCHANGED <<library, register, input, localStorage, href>>

\* await fetch(...) resolves with a status and, when it is ok, a body
fetchResolves(c, status, body) ==
    /\ calls[c].pc = "fetch"
    /\ lastOp' = Answered(Op("fetchResolves"), status)
    /\ IF ~ok(status)
       THEN /\ body = "Empty"
            /\ IF status = 401
               THEN /\ localStorage' = [token |-> NoItem, user |-> NoItem]
                    /\ href' = "/login"
               ELSE UNCHANGED <<localStorage, href>>
            /\ thrown(c, "openFailed")
       ELSE /\ calls' = [calls EXCEPT ![c].pc = "read", ![c].body = body]
            /\ UNCHANGED <<messages, isLoading, localStorage, href>>
    /\ UNCHANGED <<library, register, input>>

\* await reader.read() resolves with the next n bytes of the body
readChunk(c, n) ==
    /\ calls[c].pc = "read"
    /\ n >= 1
    /\ calls[c].pos + n <= Len(Bytes(calls[c].body))
    /\ lastOp' = Op("readChunk")
    /\ LET value == SubSeq(Bytes(calls[c].body), calls[c].pos + 1, calls[c].pos + n)
           cs == chunkCalls(value)
       IN  /\ messages' = applyCalls(messages, cs, 1)
           /\ calls' = [calls EXCEPT ![c].pos = @ + n, ![c].cbs = @ \o cs]
    /\ UNCHANGED <<isLoading, library, register, input, localStorage, href>>

\* an end of stream that returns without the finally block
readDoneKeepsLoading(c) ==
    /\ calls[c].pc = "read"
    /\ calls[c].pos = Len(Bytes(calls[c].body))
    /\ lastOp' = Op("readDone")
    /\ calls' = [calls EXCEPT ![c].pc = "completed", ![c].body = "Empty", ![c].pos = 0]
    /\ UNCHANGED <<messages, isLoading, library, register, input,
                   localStorage, href>>

\* await reader.read() resolves with done: break, return, finally
readDone(c) ==
    /\ calls[c].pc = "read"
    /\ calls[c].pos = Len(Bytes(calls[c].body))
    /\ lastOp' = Op("readDone")
    /\ isLoading' = FALSE
    /\ calls' = [calls EXCEPT ![c].pc = "completed", ![c].body = "Empty", ![c].pos = 0]
    /\ UNCHANGED <<messages, library, register, input, localStorage, href>>

\* await reader.read() rejects (the connection broke): rethrown to
\* handleSendMessage, whose catch and finally run
readRejects(c) ==
    /\ calls[c].pc = "read"
    /\ lastOp' = Op("readRejects")
    /\ thrown(c, "readFailed")
    /\ UNCHANGED <<library, register, input, localStorage, href>>

\* the transport: the resumptions of the calls in flight, with the bodies the
\* server may send and the positions where a chunk may end
Transport(bodies, cuts) ==
    \/ \E c \in 1..Len(calls) : fetchRejects(c)
    \/ \E c \in 1..Len(calls), status \in Statuses, body \in bodies :
           fetchResolves(c, status, body)
    \/ \E c \in 1..Len(calls) : \E p \in cuts[calls[c].body] :
           readChunk(c, p - calls[c].pos)
    \/ \E c \in 1..Len(calls) : readDone(c)
    \/ \E c \in 1..Len(calls) : readRejects(c)

(***************************************************************************)
(* Dashboard: the selection handlers.                                      *)
(***************************************************************************)
MAX_SELECTED_DOCS == 2

SelOp(name, docName, toast) ==
    [op |-> name, doc |-> docName, before |-> selectedDocs, toast |-> toast]

\* names.includes(docName)
includes(names, docName) == \E i \in 1..Len(names) : names[i] = docName

\* a removal that drops the last name, whatever docName is
withoutLast(names, docName) == SubSeq(names, 1, Len(names) - 1)

\* names.filter((name) => name !== docName)
without(names, docName) ==
    LET Other(name) == name # docName IN SelectSeq(names, Other)

\* a capacity test that lets one more in
atCapacityOffByOne(names) == Len(names) > MAX_SELECTED_DOCS

\* selectedDocs.length >= MAX_SELECTED_DOCS
atCapacity(names) == Len(names) >= MAX_SELECTED_DOCS

\* a selection that puts the new name first
selectedFirst(names, docName) == <<docName>> \o names

\* [...selectedDocs, docName]
selected(names, docName) == Append(names, docName)

\* a toggle that makes room by dropping the oldest name
toggledEvict(names, docName) ==
    IF includes(names, docName) THEN without(names, docName)
    ELSE IF atCapacity(names) THEN selected(Tail(names), docName)
    ELSE selected(names, docName)

\* a toggle that tests the capacity before it tests the membership
toggledCapacityFirst(names, docName) ==
    IF atCapacity(names) THEN names
    ELSE IF includes(names, docName) THEN without(names, docName)
    ELSE selected(names, docName)

\* a toggle that never deselects
toggledNoTest(names, docName) ==
    IF atCapacity(names) THEN names ELSE selected(names, docName)

\* the selection handleSelectDoc sets (it sets none when it returns early)
toggled(names, docName) ==
    IF includes(names, docName) THEN without(names, docName)
    ELSE IF atCapacity(names) THEN names
    ELSE selected(names, docName)

\* the toast handleSelectDoc shows
toggleToast(names, docName) ==
    IF includes(names, docName) THEN "none"
    ELSE IF atCapacity(names) THEN "error"
    ELSE "success"

\* the sidebar lists docName (it renders one row per entry of documents)
listed(docName) == \E i \in 1..Len(documents) : documents[i] = docName

\* onClick of a row of the sidebar
handleSelectDoc(docName) ==
    /\ listed(docName)
    /\ lastOp' = SelOp("handleSelectDoc", docName,
                       toggleToast(selectedDocs, docName))
    /\ selectedDocs' = toggled(selectedDocs, docName)
    /\ UNCHANGED <<chat, register, isUploading, localStorage, href,
                   documents, stored, tasks>>

\* onRemoveDoc, the prop InputBar calls from the pill of a selected document
handleRemoveDoc(docName) ==
    /\ lastOp' = SelOp("handleRemoveDoc", docName, "none")
    /\ selectedDocs' = without(selectedDocs, docName)
    /\ UNCHANGED <<chat, register, isUploading, localStorage, href,
                   documents, stored, tasks>>

(***************************************************************************)
(* Sidebar.handleDelete, Dashboard.fetchDocuments and                      *)
(* Dashboard.handleDelete, one action per resumption of call k; the axios  *)
(* response interceptor.                                                   *)
(***************************************************************************)
\* the calls in flight other than call k
others(k) == tasks (-) SetToBag({k})

\* call k is in flight, suspended at pc
suspended(k, pc) == k \in BagToSet(tasks) /\ k.pc = pc

\* the toast that asks "Delete docName?"; its Delete button closes over the
\* onDelete of the render in which the x was clicked, and so over the
\* selectedDocs of that render
deleteToast(docName) ==
    [kind |-> "delete", doc |-> docName, snapshot |-> selectedDocs,
     pc |-> "confirm", authorization |-> NoHeader]

\* Sidebar.handleDelete: the x of a row of the sidebar opens the toast
sidebarHandleDelete(docName) ==
    /\ listed(docName)
    /\ lastOp' = SelOp("sidebarHandleDelete", docName, "confirm")
    /\ tasks' = tasks (+) SetToBag({deleteToast(docName)})
    /\ UNCHANGED <<chat, register, isUploading, localStorage, href,
                   selectedDocs, documents, stored>>

\* the Cancel button of the toast: toast.dismiss(t.id)
dismiss(k) ==
    /\ suspended(k, "confirm")
    /\ lastOp' = SelOp("dismiss", k.doc, "none")
    /\ tasks' = others(k)
    /\ UNCHANGED <<chat, register, isUploading, localStorage, href,
                   selectedDocs, documents, stored>>

\* the Delete button of the toast: onDelete(docName), which is
\* Dashboard.handleDelete up to await deleteDocument(docName), then
\* toast.dismiss(t.id)
handleDelete(k) ==
    /\ suspended(k, "confirm")
    /\ lastOp' = SelOp("handleDelete", k.doc, "none")
    /\ tasks' = others(k)
                    (+) SetToBag({[k EXCEPT !.pc = "delete",
                                           !.authorization = axiosAuthorization]})
    /\ UNCHANGED <<chat, register, isUploading, localStorage, href,
                   selectedDocs, documents, stored>>

\* the buttons of the toasts that are open
Toasts ==
    \/ \E k \in BagToSet(tasks) : handleDelete(k)
    \/ \E k \in BagToSet(tasks) : dismiss(k)

\* an interceptor that takes every rejection for an expired token
interceptedAny(status) ==
    /\ localStorage' = [token |-> NoItem, user |-> NoItem]
    /\ href' = "/login"

\* api.interceptors.response: the rejection of an axios call
intercepted(status) ==
    IF status = 401
    THEN /\ localStorage' = [token |-> NoItem, user |-> NoItem]
         /\ href' = "/login"
    ELSE UNCHANGED <<localStorage, href>>

\* data.documents of GET /documents
listing ==
    LET Stored(name) == name \in stored
    IN  SelectSeq(DocOrder \o UploadOrder, Stored)

\* await deleteDocument(docName) resolves: the server has deleted the
\* document; setSelectedDocs(selectedDocs.filter(...)) over the selection the
\* call closed over; then fetchDocuments() is awaited
deleteResolves(k) ==
    /\ suspended(k, "delete")
    /\ k.doc \in stored
    /\ lastOp' = SelOp("deleteResolves", k.doc, "none")
    /\ stored' = stored \ {k.doc}
    /\ selectedDocs' = without(k.snapshot, k.doc)
    /\ tasks' = others(k)
                    (+) SetToBag({[k EXCEPT !.pc = "list", !.snapshot = <<>>,
                                           !.authorization = axiosAuthorization]})
    /\ UNCHANGED <<chat, register, isUploading, localStorage, href, documents>>

\* a catch block that still drops the document from the selection and
\* refreshes the list
deleteRejectsAsResolved(k, status) ==
    /\ suspended(k, "delete")
    /\ lastOp' = Answered(SelOp("deleteRejects", k.doc, "error"), status)
    /\ intercepted(status)
    /\ selectedDocs' = without(k.snapshot, k.doc)
    /\ tasks' = others(k)
                    (+) SetToBag({[k EXCEPT !.pc = "list", !.snapshot = <<>>,
                                           !.authorization = axiosAuthorization]})
    /\ UNCHANGED <<chat, register, isUploading, documents, stored>>

\* await deleteDocument(docName) rejects: the catch block of handleDelete
deleteRejects(k, status) ==
    /\ suspended(k, "delete")
    /\ lastOp' = Answered(SelOp("deleteRejects", k.doc, "error"), status)
    /\ intercepted(status)
    /\ tasks' = others(k)
    /\ UNCHANGED <<chat, register, isUploading, selectedDocs, documents,
                   stored>>

\* the isUploading a call of fetchDocuments leaves when it returns:
\* handleUpload then runs finally { setIsUploading(false) }
uploaded(k) == IF k.kind = "upload" THEN FALSE ELSE isUploading

\* await listDocuments() resolves: setDocuments(data.documents); handleDelete
\* and handleUpload then show their success toast
listResolves(k) ==
    /\ suspended(k, "list")
    /\ lastOp' = SelOp("listResolves", k.doc,
                       IF k.kind = "mount" THEN "none" ELSE "success")
    /\ documents' = listing
    /\ tasks' = others(k)
    /\ isUploading' = uploaded(k)
    /\ UNCHANGED <<chat, register, localStorage, href, selectedDocs, stored>>

\* await listDocuments() rejects: the catch block of fetchDocuments, which
\* returns normally; handleDelete and handleUpload then show their success
\* toast
listRejects(k, status) ==
    /\ suspended(k, "list")
    /\ lastOp' = Answered(SelOp("listRejects", k.doc,
                                IF k.kind = "mount" THEN "error"
                                ELSE "error+success"),
                          status)
    /\ intercepted(status)
    /\ tasks' = others(k)
    /\ isUploading' = uploaded(k)
    /\ UNCHANGED <<chat, register, selectedDocs, documents, stored>>

(***************************************************************************)
(* Sidebar's upload area and Dashboard.handleUpload, one action per        *)
(* resumption of call k.                                                   *)
(***************************************************************************)
\* s.endsWith(p)
endsWith(s, p) ==
    /\ Len(s) >= Len(p)
    /\ SubSeq(s, Len(s) - Len(p) + 1, Len(s)) = p

PdfSuffix == <<".", "p", "d", "f">>

\* the call, suspended at await uploadDocument(file)
uploadTask(file) ==
    [kind |-> "upload", doc |-> file.doc, snapshot |-> <<>>, pc |-> "upload",
     authorization |-> axiosAuthorization]

\* Dashboard.handleUpload, up to its await
handleUpload(file) ==
    IF ~endsWith(file.name, PdfSuffix)
    THEN /\ lastOp' = SelOp("handleUpload", file.doc, "error")
         /\ UNCHANGED <<chat, register, localStorage, href, library>>
    ELSE /\ lastOp' = SelOp("handleUpload", file.doc, "loading")
         /\ isUploading' = TRUE
         /\ tasks' = tasks (+) SetToBag({uploadTask(file)})
         /\ UNCHANGED <<chat, register, localStorage, href, selectedDocs,
                        documents, stored>>

\* onChange of the hidden file input, which a click on the upload area
\* opens whether or not an upload is in flight
handleFileChange(file) == handleUpload(file)

\* onDrop of the upload area, whether or not an upload is in flight:
\* alert(...) for a file that is not a PDF
handleDrop(file) ==
    IF endsWith(file.name, PdfSuffix)
    THEN handleUpload(file)
    ELSE /\ lastOp' = SelOp("handleDrop", file.doc, "alert")
         /\ UNCHANGED <<chat, register, localStorage, href, library>>

\* await uploadDocument(file) resolves: the server stores the document; then
\* fetchDocuments() is awaited
uploadResolves(k) ==
    /\ suspended(k, "upload")
    /\ lastOp' = SelOp("uploadResolves", k.doc, "none")
    /\ stored' = stored \cup {k.doc}
    /\ tasks' = others(k)
                    (+) SetToBag({[k EXCEPT !.pc = "list",
                                           !.authorization = axiosAuthorization]})
    /\ UNCHANGED <<chat, register, isUploading, localStorage, href,
                   selectedDocs, documents>>

\* await uploadDocument(file) rejects: the interceptor, catch, then finally
uploadRejects(k, status) ==
    /\ suspended(k, "upload")
    /\ lastOp' = Answered(SelOp("uploadRejects", k.doc, "error"), status)
    /\ intercepted(status)
    /\ tasks' = others(k)
    /\ isUploading' = FALSE
    /\ UNCHANGED <<chat, register, selectedDocs, documents, stored>>

\* the resumptions of the uploads in flight
Uploads(statuses) ==
    \/ \E k \in BagToSet(tasks) : uploadResolves(k)
    \/ \E k \in BagToSet(tasks), status \in statuses : uploadRejects(k, status)

(***************************************************************************)
(* Dashboard.handleLogout, and the api functions login and getCurrentUser, *)
(* one action per resumption of call k.                                    *)
(***************************************************************************)
\* logout() of AuthContext ends the session; it may or may not remove the
\* stored token and user
logout(clears) ==
    localStorage' = IF clears THEN [token |-> NoItem, user |-> NoItem]
                    ELSE localStorage

\* the Logout button of the sidebar
handleLogout(clears) ==
    /\ lastOp' = SelOp("handleLogout", "", "success")
    /\ logout(clears)
    /\ UNCHANGED <<chat, register, library, href>>

\* the call of an api function, suspended at await api.post(...) or
\* await api.get(...)
requestTask(kind) ==
    [kind |-> kind, doc |-> "", snapshot |-> <<>>, pc |-> kind,
     authorization |-> axiosAuthorization]

apiCall(kind) ==
    /\ lastOp' = SelOp(kind, "", "none")
    /\ tasks' = tasks (+) SetToBag({requestTask(kind)})
    /\ UNCHANGED <<chat, register, isUploading, localStorage, href,
                   selectedDocs, documents, stored>>

\* api.login: POST /login
login == apiCall("login")

\* api.getCurrentUser: GET /me
getCurrentUser == apiCall("me")

\* the request resolves: the function returns response.data
requestResolves(k) ==
    /\ k \in BagToSet(tasks)
    /\ k.pc \in {"login", "me"}
    /\ lastOp' = SelOp("requestResolves", "", "none")
    /\ tasks' = others(k)
    /\ UNCHANGED <<chat, register, isUploading, localStorage, href,
                   selectedDocs, documents, stored>>

\* the request rejects: the interceptor, and the function throws
requestRejects(k, status) ==
    /\ k \in BagToSet(tasks)
    /\ k.pc \in {"login", "me"}
    /\ lastOp' = Answered(SelOp("requestRejects", "", "none"), status)
    /\ intercepted(status)
    /\ tasks' = others(k)
    /\ UNCHANGED <<chat, register, isUploading, selectedDocs, documents,
                   stored>>

\* the resumptions of the calls of login and getCurrentUser in flight
Session(statuses) ==
    \/ \E k \in BagToSet(tasks) : requestResolves(k)
    \/ \E k \in BagToSet(tasks), status \in statuses :
           requestRejects(k, status)

\* the resumptions of the document calls in flight
Documents(statuses) ==
    \/ \E k \in BagToSet(tasks) : deleteResolves(k)
    \/ \E k \in BagToSet(tasks), status \in statuses :
           deleteRejects(k, status)
    \/ \E k \in BagToSet(tasks) : listResolves(k)
    \/ \E k \in BagToSet(tasks), status \in statuses :
           listRejects(k, status)

(***************************************************************************)
(* App: the page that asks with the blocking POST /query; its InputBar and *)
(* ChatArea call App.handleSendMessage.                                    *)
(***************************************************************************)
\* the answers and the source lists POST /query may return
Answers == {JsString(<<>>), JsString(<<"4", "2">>), JsString(<<"n", "o", " ">>)}

SourceLists ==
    {JsArray(<<>>), JsArray(<<JsObject(<<<<<<"p">>, JsNumber(2)>>>>)>>)}

\* api.queryDocuments: the POST of the axios instance
queryRequest(question) ==
    [ authorization |-> axiosAuthorization,
      question |-> question,
      document_names |-> documentNames,
      n_results |-> 5 ]

\* the call, suspended at await queryDocuments(...); prev is the transcript
\* handleSendMessage was called with
queryCall(question, prev) ==
    [ pc |-> "query",
      request |-> queryRequest(question),
      prev |-> prev ]

\* App.handleSendMessage, up to its await
appHandleSendMessage(question) ==
    /\ messages' = Append(messages, userMessage(question))
    /\ isLoading' = TRUE
    /\ calls' = Append(calls, queryCall(question, messages))

\* InputBar.handleSubmit with onSendMessage={App.handleSendMessage}
appHandleSubmit ==
    /\ lastOp' = SubmitOp("handleSubmit")
    /\ IF submitAccepted
       THEN /\ appHandleSendMessage(input)
            /\ input' = <<>>
            /\ UNCHANGED <<library, register, localStorage, href>>
       ELSE UNCHANGED <<messages, isLoading, library, register, input,
                        localStorage, href, calls>>

\* the example buttons with onExampleClick={App.handleSendMessage}
appOnExampleClick(idx) ==
    /\ examplesRendered
    /\ lastOp' = SubmitOp("onExampleClick")
    /\ appHandleSendMessage(exampleQuestions[idx])
    /\ UNCHANGED <<library, register, input, localStorage, href>>

\* an answer entry without the sources of the response
answerMessageNoSources(response) ==
    [role |-> "assistant", content |-> toText(response.answer),
     sources |-> JsArray(<<>>)]

\* { role: 'assistant', content: response.answer, sources: response.sources }
\* (the answer is a string, which the transcript holds as its characters)
answerMessage(response) ==
    [role |-> "assistant", content |-> response.answer.v,
     sources |-> response.sources]

\* { role: 'assistant', content: 'Sorry, an error occurred ...' }
errorMessage == [role |-> "assistant", content |-> Apology]

\* the record of a resumption of call c of App.handleSendMessage
QueryOp(name, c, response) ==
    [op |-> name, busy |-> Busy, before |-> messages, opened |-> Len(calls),
     call |-> c, response |-> response]

\* await queryDocuments(...) resolves with response.data; then finally
queryResolves(c, response) ==
    /\ calls[c].pc = "query"
    /\ lastOp' = QueryOp("queryResolves", c, response)
    /\ messages' = Append(messages, answerMessage(response))
    /\ isLoading' = FALSE
    /\ calls' = [calls EXCEPT ![c].pc = "completed"]
    /\ UNCHANGED <<library, register, input, localStorage, href>>

\* await queryDocuments(...) rejects: the interceptor, catch, then finally
queryRejects(c, status) ==
    /\ calls[c].pc = "query"
    /\ lastOp' = Answered(QueryOp("queryRejects", c, JsNull), status)
    /\ intercepted(status)
    /\ messages' = Append(messages, errorMessage)
    /\ isLoading' = FALSE
    /\ calls' = [calls EXCEPT ![c].pc = "failed"]
    /\ UNCHANGED <<library, register, input>>

(***************************************************************************)
(* Register: the form and handleSubmit, one action per resumption.         *)
(***************************************************************************)
\* the texts typed into the e-mail field and into the two password fields
Emails == {<<>>, <<"a", "@", "b">>}

Passwords ==
    { <<>>,
      <<"1", "2", "3", "4", "5">>,
      <<"1", "2", "3", "4", "5", "6">>,
      <<"s", "e", "c", "r", "e", "t", "!">> }

\* at most this many POST /register are sent
MaxRegistrations == 2

RegOp(name, toast) == [op |-> name, before |-> register, toast |-> toast]

\* onChange of a field; the fields are disabled while isLoading is true
setField(field, text) ==
    /\ ~register.isLoading
    /\ text # register[field]
    /\ lastOp' = RegOp("onChange", "none")
    /\ register' = [register EXCEPT ![field] = text]
    /\ UNCHANGED <<chat, library, localStorage, href>>

\* the least length of a password
MinPasswordLength == 6

\* a length test that lets a password one character short pass
tooShortOffByOne(password) == Len(password) < MinPasswordLength - 1

\* password.length < 6
tooShort(password) == Len(password) < MinPasswordLength

\* the toast of the first validation that fails, "none" if none fails
validation(form) ==
    IF form.email = <<>> \/ form.password = <<>> \/ form.confirmPassword = <<>>
    THEN "Please fill in all fields"
    ELSE IF form.password # form.confirmPassword
    THEN "Passwords do not match"
    ELSE IF tooShort(form.password)
    THEN "Password must be at least 6 characters"
    ELSE "none"

\* api.register: the body of POST /register
registerRequest(form) == [email |-> form.email, password |-> form.password]

\* onSubmit of the form, whose button is disabled while isLoading is true;
\* Register.handleSubmit up to its await
registerHandleSubmit ==
    /\ ~register.isLoading
    /\ lastOp' = RegOp("handleSubmit", validation(register))
    /\ IF validation(register) # "none"
       THEN UNCHANGED register
       ELSE register' = [register EXCEPT
                            !.isLoading = TRUE,
                            !.pc = "register",
                            !.sent = Append(@, registerRequest(register))]
    /\ UNCHANGED <<chat, library, localStorage, href>>

\* await register(...) resolves with a token and the e-mail of the request:
\* loginUser(data.access_token, data.email), navigate('/'), then finally
registerResolves(token) ==
    /\ register.pc = "register"
    /\ lastOp' = RegOp("registerResolves", "success")
    /\ register' = [register EXCEPT
                       !.isLoading = FALSE,
                       !.pc = "idle",
                       !.logins =
                           Append(@, [token |-> token,
                                      email |-> register.sent[Len(register.sent)].email])]
    /\ href' = "/"
    /\ UNCHANGED <<chat, library, localStorage>>

\* await register(...) rejects: the interceptor, catch, then finally
registerRejects(status) ==
    /\ register.pc = "register"
    /\ lastOp' = Answered(RegOp("registerRejects", "error"), status)
    /\ intercepted(status)
    /\ register' = [register EXCEPT !.isLoading = FALSE, !.pc = "idle"]
    /\ UNCHANGED <<chat, library>>

\* a submit that would send a request beyond the explored number is not run
WithinRegistrations == Len(register'.sent) <= MaxRegistrations

\* a handler that would start a call beyond the explored number is not run
WithinDeletes == BagCardinality(tasks') <= MaxDeletes

\* a handler that would start a call beyond the explored number is not run
WithinCalls == Len(calls') <= MaxExchanges

\* the session: several exchanges, one after the other
Next ==
    \/ \E text \in Inputs \cup {<<>>} : handleChange(text)
    \/ handleSubmit /\ WithinCalls
    \/ \E idx \in ExampleChoices : onExampleClick(idx) /\ WithinCalls
    \/ Transport(SessionBodies, SessionCuts)

Spec == Init /\ [][Next]_vars

\* await fetch(...) settles: it rejects, or resolves with a status
Opens(bodies) ==
    \/ \E c \in 1..Len(calls) : fetchRejects(c)
    \/ \E c \in 1..Len(calls), status \in Statuses, body \in bodies :
           fetchResolves(c, status, body)

\* the stream ends: reader.read() signals done, or rejects
Ends ==
    \/ \E c \in 1..Len(calls) : readDone(c)
    \/ \E c \in 1..Len(calls) : readRejects(c)

\* the session under a transport that does not stay silent for ever: a
\* pending fetch eventually settles, and an open stream eventually ends or
\* breaks
SpecLive == Spec /\ WF_vars(Opens(SessionBodies)) /\ WF_vars(Ends)

\* the stream: one exchange, from the state the click on the third example
\* button leaves, under every body and every cutting into chunks
InitStream ==
    /\ messages = appendExchange(<<>>, exampleQuestions[3])
    /\ isLoading = TRUE
    /\ selectedDocs = <<>>
    /\ input = <<>>
    /\ localStorage = [token |-> "jwt", user |-> "user"]
    /\ href = "/"
    /\ calls = <<newCall(exampleQuestions[3], <<>>)>>
    /\ lastOp = [op |-> "onExampleClick", busy |-> FALSE, before |-> <<>>,
                 opened |-> 0]
    /\ documents = <<>>
    /\ stored = Docs
    /\ tasks = SetToBag({mountTask})
    /\ isUploading = FALSE
    /\ register = blankForm

NextStream == Transport(Bodies, AllCuts)

SpecStream == InitStream /\ [][NextStream]_vars

\* the selection: toggles, removals and deletes in any interleaving
NextSel ==
    \/ \E docName \in Docs : handleSelectDoc(docName)
    \/ \E docName \in Docs : handleRemoveDoc(docName)
    \/ \E docName \in DeleteChoices :
           sidebarHandleDelete(docName) /\ WithinDeletes
    \/ Toasts
    \/ Documents(SelStatuses)

SpecSel == Init /\ [][NextSel]_vars

\* the scope of a question: selection changes and submits, up to the first
\* await of handleSendMessage
NextScope ==
    \/ \E k \in BagToSet(tasks) : listResolves(k)
    \/ \E docName \in Docs : handleSelectDoc(docName)
    \/ \E docName \in Docs : handleRemoveDoc(docName)
    \/ \E text \in Inputs \cup {<<>>} : handleChange(text)
    \/ handleSubmit /\ WithinCalls
    \/ \E idx \in ExampleChoices : onExampleClick(idx) /\ WithinCalls

SpecScope == Init /\ [][NextScope]_vars

\* the credential: questions whose stream fails at open, deletes and list
\* refreshes, each request answered or rejected with any status
NextAuth ==
    \/ \E text \in Inputs \cup {<<>>} : handleChange(text)
    \/ handleSubmit /\ WithinCalls
    \/ \E idx \in ExampleChoices : onExampleClick(idx) /\ WithinCalls
    \/ \E c \in 1..Len(calls), status \in AuthStatuses :
           fetchResolves(c, status, "Empty")
    \/ \E docName \in DeleteChoices :
           sidebarHandleDelete(docName) /\ WithinDeletes
    \/ Toasts
    \/ Documents(AuthStatuses)
    \/ \E clears \in BOOLEAN : handleLogout(clears)
    \/ login /\ WithinDeletes
    \/ getCurrentUser /\ WithinDeletes
    \/ Session(AuthStatuses)

SpecAuth == Init /\ [][NextAuth]_vars

\* the uploads: files picked and dropped in any interleaving with the
\* answers of the server
NextUpload ==
    \/ \E k \in BagToSet(tasks) : listResolves(k)
    \/ \E k \in BagToSet(tasks), status \in SelStatuses :
           listRejects(k, status)
    \/ \E file \in UploadFiles : handleFileChange(file) /\ WithinDeletes
    \/ \E file \in UploadFiles : handleDrop(file) /\ WithinDeletes
    \/ Uploads(SelStatuses)

SpecUpload == Init /\ [][NextUpload]_vars

\* the Register page, shown to a visitor who is not logged in
InitRegister ==
    /\ messages = <<>>
    /\ isLoading = FALSE
    /\ selectedDocs = <<>>
    /\ input = <<>>
    /\ localStorage = [token |-> NoItem, user |-> NoItem]
    /\ href = "/register"
    /\ calls = <<>>
    /\ lastOp = [op |-> "mount", before |-> blankForm, toast |-> "none"]
    /\ documents = <<>>
    /\ stored = Docs
    /\ tasks = EmptyBag
    /\ isUploading = FALSE
    /\ register = blankForm

NextRegister ==
    \/ \E text \in Emails : setField("email", text)
    \/ \E text \in Passwords : setField("password", text)
    \/ \E text \in Passwords : setField("confirmPassword", text)
    \/ registerHandleSubmit /\ WithinRegistrations
    \/ registerResolves("jwt")
    \/ \E status \in AuthStatuses : registerRejects(status)

SpecRegister == InitRegister /\ [][NextRegister]_vars

\* the page of the blocking query: questions asked one after the other, each
\* answered or rejected
NextApp ==
    \/ \E text \in Inputs \cup {<<>>} : handleChange(text)
    \/ appHandleSubmit /\ WithinCalls
    \/ \E idx \in ExampleChoices : appOnExampleClick(idx) /\ WithinCalls
    \/ \E c \in 1..Len(calls), answer \in Answers, sources \in SourceLists :
           queryResolves(c, [answer |-> answer, sources |-> sources])
    \/ \E c \in 1..Len(calls), status \in AuthStatuses :
           queryRejects(c, status)

SpecApp == Init /\ [][NextApp]_vars

(***************************************************************************)
(* Properties.                                                             *)
(***************************************************************************)
Calls == 1..Len(calls)

IsTokenCall(call) == call.fn = "onToken"
IsDoneCall(call) == call.fn = "onDone"

\* the onToken and the onDone calls among cbs, in order
tokenCalls(cbs) == SelectSeq(cbs, IsTokenCall)
doneCalls(cbs) == SelectSeq(cbs, IsDoneCall)

\* the texts of the tokens handed to onToken, concatenated in arrival order
RECURSIVE tokensText(_, _)
tokensText(cbs, i) ==
    IF i > Len(cbs) THEN <<>>
    ELSE (IF IsTokenCall(cbs[i]) THEN toText(cbs[i].arg) ELSE <<>>)
         \o tokensText(cbs, i + 1)

\* the placeholder call c appended
Own(c) == messages[calls[c].own]

NoSources == JsArray(<<>>)

\* every byte of the body of call c has been read; done is not yet signalled
AllRead(c) ==
    /\ calls[c].pc = "read"
    /\ calls[c].pos = Len(Bytes(calls[c].body))

\* C1: however the transport cuts the body into chunks, the ordered sequence
\* of onToken/onDone calls is the one the uncut body gives (so a token whose
\* line is split across two chunks still arrives, and so does the done frame).
BoundaryIndependence ==
    \A c \in Calls :
        AllRead(c) => calls[c].cbs = chunkCalls(Bytes(calls[c].body))

\* C2: a stream that opened and ended without any token or done frame applied
\* leaves the apology text in the placeholder, with no sources.
TotalTruncationApology ==
    \A c \in Calls :
        (calls[c].pc = "completed" /\ calls[c].cbs = <<>>)
            => /\ Own(c).content = Apology
               /\ Own(c).sources = NoSources

\* C3: a submit or example click issued while an exchange is in flight is
\* dropped: the transcript is what it was before it and no request was opened.
SessionBusyDropsSubmit ==
    (lastOp.op \in {"handleSubmit", "onExampleClick"} /\ lastOp.busy)
        => /\ messages = lastOp.before
           /\ Len(calls) = lastOp.opened

\* a submit of a typed question was dropped while the first exchange was in
\* flight
SessionBusyWitness ==
    /\ lastOp.op = "handleSubmit"
    /\ lastOp.busy
    /\ trimNonEmpty(input)
    /\ Len(messages) = 2

\* C4: at most one exchange is in flight in every reachable state.
AtMostOneInFlight == Cardinality({c \in Calls : InFlight(c)}) <= 1

\* the second exchange is in flight, the first has ended, and a submit was
\* just attempted
SecondExchangeWitness ==
    /\ Len(calls) = 2
    /\ InFlight(2)
    /\ calls[2].pc = "read"
    /\ lastOp.op = "handleSubmit"
    /\ lastOp.busy

\* C5: when the stream ends without a thrown error, the content of the
\* placeholder is the concatenation, in arrival order, of the tokens handed to
\* onToken.
RoundTrip ==
    \A c \in Calls :
        calls[c].pc = "completed" => Own(c).content = tokensText(calls[c].cbs, 1)

\* an exchange completed after two tokens
RoundTripWitness ==
    \E c \in Calls :
        /\ calls[c].pc = "completed"
        /\ Len(tokenCalls(calls[c].cbs)) = 2
        /\ Own(c).content = <<"a", "b">>

\* C6: when the request fails at open time (fetch rejects, or a non-2xx
\* status), no frame is applied, the placeholder holds the apology text and
\* its sources stay empty.
OpenFailureApology ==
    \A c \in Calls :
        calls[c].pc = "openFailed"
            => /\ calls[c].cbs = <<>>
               /\ Own(c).content = Apology
               /\ Own(c).sources = NoSources

\* the stream endpoint answered 401 and the exchange failed at open
OpenFailureWitness ==
    /\ \E c \in Calls : calls[c].pc = "openFailed"
    /\ lastOp.op = "fetchResolves"
    /\ href = "/login"

\* C7: when a non-empty token was appended and the exchange ends without a done
\* frame (end of stream, or a read error), the final content is exactly the
\* accumulated token text, never the apology.
PartialAnswerKept ==
    \A c \in Calls :
        ( /\ calls[c].pc \in {"completed", "readFailed"}
          /\ doneCalls(calls[c].cbs) = <<>>
          /\ tokensText(calls[c].cbs, 1) # <<>> )
            => Own(c).content = tokensText(calls[c].cbs, 1)

\* a read error after one token and no done frame
PartialAnswerWitness ==
    \E c \in Calls :
        /\ calls[c].pc = "readFailed"
        /\ doneCalls(calls[c].cbs) = <<>>
        /\ Len(tokenCalls(calls[c].cbs)) = 1
        /\ Own(c).content # <<>>

\* C8: the transcript strictly alternates user, assistant: every user entry
\* is immediately followed by an assistant entry, in every reachable state.
UserAlwaysAnswered ==
    /\ Len(messages) % 2 = 0
    /\ \A i \in 1..Len(messages) :
           messages[i].role = IF i % 2 = 1 THEN "user" ELSE "assistant"

\* two questions were asked; the first exchange failed at open, the second is
\* still waiting for its response
UserAnsweredWitness ==
    /\ Len(messages) = 4
    /\ calls[1].pc = "openFailed"
    /\ calls[2].pc = "fetch"

\* C9: a step changes an existing entry only if the entry is an assistant
\* entry, is the last entry, and is the placeholder of the call the step
\* resumes, that call being in flight; user entries never change.
FramesTouchOwnPlaceholder ==
    [][\A i \in 1..Len(messages) :
          (i > Len(messages') \/ messages'[i] # messages[i])
              => /\ messages[i].role = "assistant"
                 /\ i = Len(messages)
                 /\ \E c \in Calls :
                        /\ calls[c].own = i
                        /\ InFlight(c)
                        /\ calls'[c] # calls[c]]_vars

\* the second exchange received frames while the answer of the first exchange
\* stands before it
FramesTouchWitness ==
    /\ Len(calls) = 2
    /\ calls[2].cbs # <<>>
    /\ messages[2].content # <<>>
    /\ messages[4].content # <<>>

\* C10: the sources of the placeholder are empty until a done frame is applied,
\* then are that frame's sources, and no later frame of the stream changes them.
SourcesSetOnce ==
    \A c \in Calls :
        LET dones == doneCalls(calls[c].cbs) IN
        Own(c).sources = IF dones = <<>> THEN NoSources ELSE dones[1].arg

\* C11: the transcript is append-only: no step shortens it; it grows only by
\* a submit or an example click, and then by exactly two entries, the user
\* entry followed by the assistant entry, after the entries already there; a
\* step that does not grow it (a frame, the error fallback) leaves every entry
\* other than the last as it was.
TranscriptAppendOnly ==
    [][LET n == Len(messages) IN
       /\ Len(messages') \in {n, n + 2}
       /\ Len(messages') = n + 2
            => /\ lastOp'.op \in {"handleSubmit", "onExampleClick"}
               /\ SubSeq(messages', 1, n) = messages
               /\ messages'[n + 1].role = "user"
               /\ messages'[n + 2].role = "assistant"
       /\ Len(messages') = n
            => \A i \in 1..(n - 1) : messages'[i] = messages[i]]_vars

\* the second exchange ended with the error fallback after the first exchange
\* had received its answer and its sources
AppendOnlyWitness ==
    /\ Len(messages) = 4
    /\ lastOp.op = "readRejects"
    /\ messages[4].content = Apology
    /\ messages[2].content # <<>>
    /\ messages[2].sources # NoSources

\* the bytes a step reads from the body of call c (none if it reads none)
ChunkRead(c) ==
    IF calls[c].pc = "read" /\ calls'[c].pos > calls[c].pos
    THEN SubSeq(Bytes(calls[c].body), calls[c].pos + 1, calls'[c].pos)
    ELSE <<>>

\* the data lines of a chunk
DataLines(value) == SelectSeq(split(decode(value)), IsDataLine)

\* C12: a data line whose payload fails to parse is absorbed: it makes no
\* onToken/onDone call and no transcript change, the read loop does not throw
\* (the call goes on reading), and the well-formed frames of the other lines
\* of the chunk, those after it included, are decoded and applied in order;
\* so the step is the one the chunk without its unparsable lines gives.
ParseFailureAbsorbed ==
    [][\A c \in Calls :
          \A value \in {ChunkRead(c)} : value # <<>> =>
              \A good \in {SelectSeq(DataLines(value), Parses)} :
                  \A cs \in {linesCalls(good, 1)} :
                      /\ calls'[c].pc = "read"
                      /\ calls'[c].cbs = calls[c].cbs \o cs
                      /\ messages' = applyCalls(messages, cs, 1)]_vars

\* the body with the unparsable line was read to its end: the token before
\* it and the token and the done frame after it were applied, in order
ParseFailureWitness ==
    \E c \in Calls :
        /\ calls[c].body = "Broken"
        /\ AllRead(c)
        /\ Len(tokenCalls(calls[c].cbs)) = 2
        /\ Len(doneCalls(calls[c].cbs)) = 1
        /\ Own(c).content = <<"a", "b">>

\* a line that carries a frame: a data line whose payload parses to a value
\* with type token or done
IsFrameLine(line) ==
    /\ IsDataLine(line)
    /\ Parses(line)
    /\ LET val == JSONparse(slice(line, 6)).val IN
       /\ ~GetThrows(val)
       /\ Get(val, TypeKey) \in {JsString(TokenType), JsString(DoneType)}

\* C13: ignored input leaves the state unchanged: a line that does not start
\* with the data prefix, and a payload that parses but whose type is neither
\* token nor done, make no callback and no transcript change, and the loop
\* goes on with the next line; so the step makes one callback per frame line
\* of the chunk, in order, and nothing else.
IgnoredInputNoEffect ==
    [][\A c \in Calls :
          \A value \in {ChunkRead(c)} : value # <<>> =>
              \A frames \in {SelectSeq(split(decode(value)), IsFrameLine)} :
                  \A cs \in {linesCalls(frames, 1)} :
                      /\ Len(cs) = Len(frames)
                      /\ calls'[c].pc = "read"
                      /\ calls'[c].cbs = calls[c].cbs \o cs
                      /\ messages' = applyCalls(messages, cs, 1)]_vars

\* the comment line, the unparsable line, the ping payload and the blank line
\* were read and nothing was called; the placeholder is still empty
IgnoredInputWitness ==
    \E c \in Calls :
        /\ calls[c].body = "Noisy"
        /\ calls[c].pc = "read"
        /\ calls[c].pos > 1
        /\ Noisy[calls[c].pos] = "\n"
        /\ Noisy[calls[c].pos - 1] = "\n"
        /\ calls[c].cbs = <<>>
        /\ Own(c).content = <<>>
        /\ lastOp.op = "readChunk"

\* the names of a selection
Names(names) == {names[i] : i \in 1..Len(names)}

\* handleSelectDoc ran last
Toggled == lastOp.op = "handleSelectDoc"

\* C14: after any sequence of handleSelectDoc, handleRemoveDoc and
\* handleDelete calls, in any interleaving with the resumptions of the
\* deletes, the selection holds at most MAX_SELECTED_DOCS identifiers.
SelectionCapacity == Len(selectedDocs) <= MAX_SELECTED_DOCS

\* a delete has resolved and set the selection from the one its call closed
\* over: two documents are selected, which is not the selection that stood
\* just before
CapacityWitness ==
    /\ lastOp.op = "deleteResolves"
    /\ Len(selectedDocs) = MAX_SELECTED_DOCS
    /\ selectedDocs # lastOp.before

\* C15: a toggle of an identifier that is not selected while the selection
\* is full is rejected (an error toast) and leaves the selection unchanged.
CapacityExceededRejected ==
    ( /\ Toggled
      /\ lastOp.doc \notin Names(lastOp.before)
      /\ Len(lastOp.before) >= MAX_SELECTED_DOCS )
        => /\ selectedDocs = lastOp.before
           /\ lastOp.toast = "error"

\* a.pdf and b.pdf are selected and c.pdf was toggled
CapacityExceededWitness ==
    /\ Toggled
    /\ lastOp.doc = "c.pdf"
    /\ lastOp.before = <<"a.pdf", "b.pdf">>
    /\ selectedDocs = <<"a.pdf", "b.pdf">>

\* C16: a toggle of a selected identifier always succeeds, also when the
\* selection is full: the identifier is removed, the size drops by exactly
\* one and the other identifiers keep their relative order.
TogglePresentRemoves ==
    (Toggled /\ lastOp.doc \in Names(lastOp.before))
        => /\ Len(selectedDocs) = Len(lastOp.before) - 1
           /\ lastOp.doc \notin Names(selectedDocs)
           /\ \E i \in 1..Len(lastOp.before) :
                  /\ lastOp.before[i] = lastOp.doc
                  /\ selectedDocs = SubSeq(lastOp.before, 1, i - 1)
                        \o SubSeq(lastOp.before, i + 1, Len(lastOp.before))

\* the first of two selected identifiers was toggled while the selection was
\* full
TogglePresentWitness ==
    /\ Toggled
    /\ Len(lastOp.before) = MAX_SELECTED_DOCS
    /\ lastOp.doc = lastOp.before[1]
    /\ selectedDocs = Tail(lastOp.before)

\* C17: the selection never holds the same identifier twice, under any
\* sequence of toggles, removals and deletes.
NoDuplicates ==
    \A i, j \in 1..Len(selectedDocs) :
        i # j => selectedDocs[i] # selectedDocs[j]

\* two identifiers are selected again after a delete has refreshed the list
NoDuplicatesWitness ==
    /\ Toggled
    /\ lastOp.toast = "success"
    /\ Len(selectedDocs) = MAX_SELECTED_DOCS
    /\ Len(documents) < Len(DocOrder)
    /\ documents # <<>>

\* C18: a toggle of an identifier that is not selected while the selection
\* is not full appends it as the last element; the identifiers already
\* selected are unchanged and keep their order.
ToggleAbsentAppends ==
    ( /\ Toggled
      /\ lastOp.doc \notin Names(lastOp.before)
      /\ Len(lastOp.before) < MAX_SELECTED_DOCS )
        => /\ selectedDocs = lastOp.before \o <<lastOp.doc>>
           /\ lastOp.toast = "success"

\* a.pdf was toggled while only b.pdf was selected
ToggleAbsentWitness ==
    /\ Toggled
    /\ lastOp.doc = "a.pdf"
    /\ lastOp.before = <<"b.pdf">>
    /\ selectedDocs = <<"b.pdf", "a.pdf">>

\* C19: handleRemoveDoc is idempotent and a no-op on an identifier that is
\* not selected: after it the identifier is not selected, a second
\* application would leave the selection as it is, and if the identifier was
\* not selected the selection is what it was.
RemoveIdempotent ==
    lastOp.op = "handleRemoveDoc"
        => /\ lastOp.doc \notin Names(selectedDocs)
           /\ without(selectedDocs, lastOp.doc) = selectedDocs
           /\ lastOp.doc \notin Names(lastOp.before)
                  => selectedDocs = lastOp.before

\* handleRemoveDoc was applied to an identifier that was not among the two
\* selected ones
RemoveAbsentWitness ==
    /\ lastOp.op = "handleRemoveDoc"
    /\ Len(lastOp.before) = MAX_SELECTED_DOCS
    /\ lastOp.doc \notin Names(lastOp.before)
    /\ selectedDocs = lastOp.before

\* C20: the request of a query carries the selection as it stands at the
\* submit: document_names is null when nothing is selected (never an empty
\* list), and otherwise exactly the selected identifiers in selection order;
\* n_results is 5 in every request.
ScopeSnapshot ==
    [][Len(calls') > Len(calls) =>
          LET request == calls'[Len(calls')].request IN
          /\ request.n_results = 5
          /\ request.document_names # JsArray(<<>>)
          /\ selectedDocs = <<>> => request.document_names = JsNull
          /\ selectedDocs # <<>>
                => request.document_names = JsArray(selectedDocs)]_vars

\* a question was sent while b.pdf and a.pdf were selected, in that order
ScopeSnapshotWitness ==
    /\ lastOp.op = "handleSubmit"
    /\ Len(calls) = 1
    /\ selectedDocs = <<"b.pdf", "a.pdf">>
    /\ calls[1].request.document_names = JsArray(<<"b.pdf", "a.pdf">>)
    /\ calls[1].request.n_results = 5

\* C21: the selection starts empty and is changed only by an explicit toggle
\* or removal: a step that changes it is a handleSelectDoc or handleRemoveDoc
\* call, or the completion of a delete removing the deleted document from the
\* selection as it stands; no step of a query or of its stream changes it.
SelectionFrame ==
    /\ selectedDocs = <<>>
    /\ [][selectedDocs' # selectedDocs =>
             \/ lastOp'.op \in {"handleSelectDoc", "handleRemoveDoc"}
             \/ /\ lastOp'.op = "deleteResolves"
                /\ selectedDocs' = without(selectedDocs, lastOp'.doc)]_vars

\* C25: when handleDelete(d) completes successfully, the selection is the
\* selection as it was immediately before the completion with d removed, so
\* what toggles, removals and other deletes did while the request was awaited
\* is kept.
DeleteKeepsConcurrentChanges ==
    lastOp.op = "deleteResolves"
        => selectedDocs = without(lastOp.before, lastOp.doc)

\* C26: a failed delete changes nothing: the step in which deleteDocument(d)
\* rejects leaves the selection as it was (d stays selected if it was), leaves
\* the document list as it was and starts no listDocuments call; the call of
\* handleDelete is over.
FailedDeleteChangesNothing ==
    [][lastOp'.op = "deleteRejects" =>
          /\ selectedDocs' = selectedDocs
          /\ documents' = documents
          /\ BagCardinality(tasks') = BagCardinality(tasks) - 1
          /\ \A k \in BagToSet(tasks') :
                 CopiesIn(k, tasks') <= CopiesIn(k, tasks)]_vars

\* the delete of a selected document was rejected: the document is still
\* selected and still listed, and no call is in flight
FailedDeleteWitness ==
    /\ lastOp.op = "deleteRejects"
    /\ lastOp.doc \in Names(selectedDocs)
    /\ listed(lastOp.doc)
    /\ lastOp.toast = "error"
    /\ tasks = EmptyBag

\* the Authorization values of the requests a step opens: the stream request
\* of a new call of handleSendMessage and the axios request of a new or
\* resumed document call
Opened ==
    (IF Len(calls') > Len(calls)
     THEN {calls'[Len(calls')].request.authorization} ELSE {})
    \cup {k.authorization : k \in {k \in BagToSet(tasks') :
                                     CopiesIn(k, tasks') > CopiesIn(k, tasks)}}

\* the answer with which a step rejects a request: its status, or 0 if the
\* step rejects none
RejectedWith ==
    IF /\ lastOp'.op \in {"fetchResolves", "deleteRejects", "listRejects",
                        "requestRejects"}
       /\ ~ok(lastOp'.status)
    THEN lastOp'.status ELSE 0

\* C22: a request answered 401 (the stream open, or an axios call) removes
\* the stored token and user, and the call still fails: the stream counts as
\* failed at open, handleDelete and fetchDocuments run their catch block and
\* login and getCurrentUser throw; any other non-2xx
\* answer fails the call and leaves the stored credential untouched; and once
\* a 401 was answered no request opened later carries the stored token.
CredentialInvalidation ==
    [][/\ RejectedWith = 401
            => localStorage' = [token |-> NoItem, user |-> NoItem]
       /\ RejectedWith \notin {0, 401} => localStorage' = localStorage
       /\ (RejectedWith # 0 /\ lastOp'.op = "fetchResolves")
            => \E c \in Calls :
                   /\ calls[c].pc = "fetch"
                   /\ calls'[c].pc = "openFailed"
                   /\ messages'[calls[c].own].content = Apology
                   /\ ~isLoading'
       /\ (RejectedWith # 0 /\ lastOp'.op \in {"deleteRejects", "listRejects"})
            => /\ lastOp'.toast \in {"error", "error+success"}
               /\ documents' = documents
       /\ (RejectedWith # 0 /\ lastOp'.op = "requestRejects")
            => /\ BagCardinality(tasks') = BagCardinality(tasks) - 1
               /\ UNCHANGED <<chat, documents, selectedDocs>>
       /\ href = "/login" => Opened \subseteq {NoItem, NoHeader}]_vars

\* after a 401 a document was deleted with a request that carried no token
CredentialWitness ==
    /\ href = "/login"
    /\ lastOp.op = "deleteResolves"
    /\ localStorage.token = NoItem
    /\ \E c \in Calls : calls[c].pc = "openFailed"

\* C23: under a transport that eventually answers, every accepted submit is
\* eventually followed by isLoading false with no exchange in flight and the
\* input enabled, so that a new submit is accepted; this release comes with
\* the end of the stream or an error, whether or not a done frame was seen.
SessionRelease == isLoading ~> (~isLoading /\ ~Busy /\ ~disabled)

\* the first exchange ended at the end of a stream that carried no done
\* frame, and a second question was then submitted and accepted
SessionReleaseWitness ==
    /\ Len(calls) = 2
    /\ calls[1].pc = "completed"
    /\ doneCalls(calls[1].cbs) = <<>>
    /\ lastOp.op = "handleSubmit"
    /\ ~lastOp.busy
    /\ isLoading

\* the frames of a stream that carries the whole answer as one token
Token(answer) == [fn |-> "onToken", arg |-> answer]
Done(sources) == [fn |-> "onDone", arg |-> sources]

\* C24: when the blocking query resolves with the answer a and the sources s,
\* the transcript is the one the streaming handler builds from the same
\* previous transcript and question when it receives Token(a), then Done(s):
\* the previous transcript, the question, and one assistant entry with the
\* content a and the sources s; and the page is released
DegradedEquivalence ==
    lastOp.op = "queryResolves" =>
        LET call == calls[lastOp.call]
            a == lastOp.response.answer
            s == lastOp.response.sources
            streamed ==
                applyCalls(appendExchange(call.prev, call.request.question),
                           <<Token(a), Done(s)>>, 1)
        IN  /\ messages = streamed
            /\ messages = call.prev \o
                   << userMessage(call.request.question),
                      [role |-> "assistant", content |-> a.v, sources |-> s] >>
            /\ ~isLoading

\* a second question answered with a non-empty answer and a non-empty
\* source list
DegradedWitness ==
    /\ lastOp.op = "queryResolves"
    /\ lastOp.call = 2
    /\ Len(calls[2].prev) = 2
    /\ lastOp.response.answer.v # <<>>
    /\ lastOp.response.sources.v # <<>>
    /\ Len(messages) = 4

\* the uploads in flight: the calls of handleUpload that have not returned
Uploading == {k \in BagToSet(tasks) : k.kind = "upload"}

\* C28: while a call of handleUpload for a ".pdf" file has not returned
\* (its upload, then its refresh of the list, is awaited) isUploading is
\* true, and when a call returns after a failed upload isUploading is false
UploadFlag ==
    /\ Uploading # {} => isUploading
    /\ lastOp.op = "uploadRejects" => ~isUploading

\* the form passes the three checks: all fields filled in, the password
\* equal to its confirmation, the password of at least 6 characters
Valid(form) ==
    /\ form.email # <<>>
    /\ form.password # <<>>
    /\ form.confirmPassword # <<>>
    /\ form.password = form.confirmPassword
    /\ Len(form.password) >= 6

\* C27: Register.handleSubmit sends POST /register, with the e-mail and the
\* password of the form, exactly when the form passes the three checks; when
\* a check fails nothing is sent and isLoading stays false; when the request
\* is answered isLoading is false again, after a success and after a failure;
\* loginUser is called only when the request succeeded
RegistrationGated ==
    [][/\ lastOp'.op = "handleSubmit" /\ Valid(register) =>
              /\ register'.sent =
                     Append(register.sent, [email |-> register.email,
                                            password |-> register.password])
              /\ register'.isLoading
       /\ lastOp'.op = "handleSubmit" /\ ~Valid(register) =>
              /\ register'.sent = register.sent
              /\ ~register'.isLoading
       /\ lastOp'.op \in {"registerResolves", "registerRejects"} =>
              /\ register.isLoading
              /\ ~register'.isLoading
              /\ register'.sent = register.sent
       /\ register'.logins # register.logins =>
              /\ lastOp'.op = "registerResolves"
              /\ Len(register'.logins) = Len(register.logins) + 1
       /\ register'.sent # register.sent => lastOp'.op = "handleSubmit"
      ]_vars

\* a submit rejected for a password of five characters, after a request that
\* failed and before any login
RegistrationWitness ==
    /\ lastOp.op = "handleSubmit"
    /\ lastOp.toast = "Password must be at least 6 characters"
    /\ Len(register.password) = 5
    /\ Len(register.sent) = 1
    /\ register.logins = <<>>
    /\ ~register.isLoading

====
